---- MODULE Spec2Model ----
(***************************************************************************)
(* gnome-shortcuts: the precedence resolution of collect and the           *)
(* presentation sort of main, for the two versions of the program kept in  *)
(* the repository (src/gnome_shortcuts.go and src/unnamed/part_000).       *)
(*                                                                         *)
(* A Go string is a sequence of one-character strings, so that the         *)
(* regular expressions, strings.Fields, humanise and filepath.Base are     *)
(* computed character by character as the code computes them.              *)
(***************************************************************************)
EXTENDS Integers, Sequences, FiniteSets, TLC

(*──────────────────────── bounds of the model ───────────────────────────*)

\* Number of lines the settings dump may hold.
MaxLines == 3

\* Number of executions of main on the same dump (SpecTwice).
MaxRuns == 2

(*──────────────────────── package strings / unicode ─────────────────────*)

Lowers == <<"a","b","c","d","e","f","g","h","i","j","k","l","m","n","o","p","q","r","s","t","u","v","w","x","y","z">>
Uppers == <<"A","B","C","D","E","F","G","H","I","J","K","L","M","N","O","P","Q","R","S","T","U","V","W","X","Y","Z">>
Digits == <<"0","1","2","3","4","5","6","7","8","9">>

Range(f) == {f[i] : i \in DOMAIN f}

\* unicode.IsSpace restricted to ASCII, as strings.Fields sees it.
WhiteSpace == {" ", "\t", "\n", "\r", "\f"}

\* The class [A-Za-z0-9_] of tokenRE.
WordChars == Range(Lowers) \cup Range(Uppers) \cup Range(Digits) \cup {"_"}

\* unicode.ToLower and unicode.ToUpper on the ASCII letters.
LowerOf == [c \in Range(Uppers) |-> Lowers[CHOOSE i \in DOMAIN Uppers : Uppers[i] = c]]
UpperOf == [c \in Range(Lowers) |-> Uppers[CHOOSE i \in DOMAIN Lowers : Lowers[i] = c]]

ToLowerCh(c) == IF c \in DOMAIN LowerOf THEN LowerOf[c] ELSE c

ToUpperCh(c) == IF c \in DOMAIN UpperOf THEN UpperOf[c] ELSE c

\* s[i:] and s[:j] with Go's 0-based offsets.
From(s, i) == SubSeq(s, i + 1, Len(s))
UpTo(s, j) == SubSeq(s, 1, j)

HasPrefix(s, p) == Len(s) >= Len(p) /\ SubSeq(s, 1, Len(p)) = p
HasSuffix(s, p) == Len(s) >= Len(p) /\ SubSeq(s, Len(s) - Len(p) + 1, Len(s)) = p

\* strings.Index: the 0-based offset of the first occurrence, -1 if none.
Index(s, sub) ==
    LET hits == {i \in 0..(Len(s) - Len(sub)) : SubSeq(s, i + 1, i + Len(sub)) = sub}
    IN  IF hits = {} THEN -1 ELSE CHOOSE i \in hits : \A j \in hits : i <= j

LastIndexByte(s, c) ==
    LET hits == {i \in 0..(Len(s) - 1) : s[i + 1] = c}
    IN  IF hits = {} THEN -1 ELSE CHOOSE i \in hits : \A j \in hits : i >= j

Contains(s, sub) == Index(s, sub) >= 0

TrimPrefix(s, p) == IF HasPrefix(s, p) THEN From(s, Len(p)) ELSE s
TrimSuffix(s, p) == IF HasSuffix(s, p) THEN UpTo(s, Len(s) - Len(p)) ELSE s

\* strings.Trim(s, cutset): drop the leading and trailing characters of cutset.
Trim(s, cutset) ==
    LET keep == {i \in DOMAIN s : s[i] \notin cutset}
    IN  IF keep = {} THEN <<>>
        ELSE SubSeq(s, CHOOSE i \in keep : \A j \in keep : i <= j,
                       CHOOSE i \in keep : \A j \in keep : i >= j)

\* strings.ReplaceAll for a one-character pattern and replacement.
ReplaceAll(s, old, new) == [i \in DOMAIN s |-> IF s[i] = old THEN new ELSE s[i]]

\* strings.Fields: the maximal runs of non-space characters, in order.
Fields(s) ==
    LET starts == {i \in DOMAIN s : s[i] \notin WhiteSpace /\ (i = 1 \/ s[i - 1] \in WhiteSpace)}
        EndOf(i) == CHOOSE j \in i..Len(s) :
                        /\ \A k \in i..j : s[k] \notin WhiteSpace
                        /\ (j = Len(s) \/ s[j + 1] \in WhiteSpace)
        Nth(n) == CHOOSE i \in starts : Cardinality({j \in starts : j < i}) = n - 1
    IN  [n \in 1..Cardinality(starts) |-> SubSeq(s, Nth(n), EndOf(Nth(n)))]

RECURSIVE Join(_, _)
\* strings.Join
Join(parts, sep) ==
    IF parts = <<>> THEN <<>>
    ELSE IF Len(parts) = 1 THEN parts[1]
    ELSE parts[1] \o sep \o Join(Tail(parts), sep)

\* filepath.Base on a Unix path.
Base(p) ==
    IF p = <<>> THEN <<".">>
    ELSE LET stripped == LET keep == {i \in DOMAIN p : p[i] # "/"}
                         IN  IF keep = {} THEN <<>>
                             ELSE UpTo(p, CHOOSE i \in keep : \A j \in keep : i >= j)
             last == From(stripped, LastIndexByte(stripped, "/") + 1)
         IN  IF last = <<>> THEN <<"/">> ELSE last

\* The printable ASCII characters in byte order (without the double quote, the
\* backslash and the backquote, which no input of the model holds), for Go's <
\* on strings.
Ascii == <<" ","!","#","$","%","&","'","(",")","*","+",",","-",".","/","0","1","2","3","4","5","6","7","8","9",":",";","<","=",">","?","@","A","B","C","D","E","F","G","H","I","J","K","L","M","N","O","P","Q","R","S","T","U","V","W","X","Y","Z","[","]","^","_","a","b","c","d","e","f","g","h","i","j","k","l","m","n","o","p","q","r","s","t","u","v","w","x","y","z","{","|","}","~">>

\* The position of c in byte order.
CharRank == [c \in Range(Ascii) |-> CHOOSE i \in DOMAIN Ascii : Ascii[i] = c]

\* a < b on Go strings: bytewise lexicographic.
StrLess(a, b) ==
    \E k \in 1..(Len(b)) :
        /\ k <= Len(a) + 1
        /\ \A i \in 1..(k - 1) : a[i] = b[i]
        /\ (k = Len(a) + 1 \/ CharRank[a[k]] < CharRank[b[k]])

\* m[k] = v on a Go map.
Put(m, k, v) == [x \in DOMAIN m \cup {k} |-> IF x = k THEN v ELSE m[x]]

EmptyMap == [x \in {} |-> <<>>]

(*──────────────────────── keyboard layout ───────────────────────────────*)

\* type kb: kbApple, kbPC, kbChrome
Layouts == {"kbApple", "kbPC", "kbChrome"}

\* modLabels that takes the default branch of the switch for every layout.
modLabelsDefaultOnly(k) ==
    (<<"<","P","r","i","m","a","r","y",">">> :> <<"C","t","r","l">>) @@ (<<"<","C","o","n","t","r","o","l",">">> :> <<"C","t","r","l">>) @@
    (<<"<","C","t","r","l",">">> :> <<"C","t","r","l">>) @@ (<<"<","S","h","i","f","t",">">> :> <<"S","h","i","f","t">>) @@
    (<<"<","A","l","t",">">> :> <<"A","l","t">>) @@ (<<"<","S","u","p","e","r",">">> :> <<"W","i","n">>)

modLabels(k) ==
    (<<"<","P","r","i","m","a","r","y",">">> :> <<"C","t","r","l">>) @@ (<<"<","C","o","n","t","r","o","l",">">> :> <<"C","t","r","l">>) @@
    (<<"<","C","t","r","l",">">> :> <<"C","t","r","l">>) @@ (<<"<","S","h","i","f","t",">">> :> <<"S","h","i","f","t">>) @@
    CASE k = "kbApple"  -> (<<"<","A","l","t",">">> :> <<"O","p","t","i","o","n">>) @@ (<<"<","S","u","p","e","r",">">> :> <<"C","o","m","m","a","n","d">>)
      [] k = "kbChrome" -> (<<"<","A","l","t",">">> :> <<"A","l","t">>) @@ (<<"<","S","u","p","e","r",">">> :> <<"S","e","a","r","c","h">>)
      [] OTHER          -> (<<"<","A","l","t",">">> :> <<"A","l","t">>) @@ (<<"<","S","u","p","e","r",">">> :> <<"W","i","n">>)

(*──────────────────────── helpers ───────────────────────────────────────*)

titleCase(s) ==
    IF s = <<>> THEN s
    ELSE [i \in DOMAIN s |-> IF i = 1 THEN ToUpperCh(ToLowerCh(s[i])) ELSE ToLowerCh(s[i])]

humanise(s) ==
    LET w == Fields(ReplaceAll(ReplaceAll(s, "_", " "), "-", " "))
    IN  Join([i \in DOMAIN w |-> titleCase(w[i])], <<" ">>)

(*──────────────────────── accelerator formatting ────────────────────────*)

RECURSIVE tokenREFrom(_, _, _)
tokenREFrom(s, i, acc) ==
    IF i > Len(s) THEN acc
    ELSE IF s[i] = "<"
    THEN LET closes == {j \in (i + 1)..Len(s) : s[j] = ">"}
             j == CHOOSE x \in closes : \A y \in closes : x <= y
         IN  IF closes # {} /\ j >= i + 2
             THEN tokenREFrom(s, j + 1, Append(acc, SubSeq(s, i, j)))
             ELSE tokenREFrom(s, i + 1, acc)
    ELSE IF s[i] \in WordChars
    THEN LET stops == {j \in i..Len(s) : s[j] \notin WordChars}
             e == IF stops = {} THEN Len(s)
                  ELSE (CHOOSE x \in stops : \A y \in stops : x <= y) - 1
         IN  tokenREFrom(s, e + 1, Append(acc, SubSeq(s, i, e)))
    ELSE tokenREFrom(s, i + 1, acc)

\* tokenRE.FindAllString(s, -1) for tokenRE = (<[^>]+>|[A-Za-z0-9_]+)
tokenRE(s) == tokenREFrom(s, 1, <<>>)

RECURSIVE quoteREFrom(_, _, _)
quoteREFrom(s, i, acc) ==
    IF i > Len(s) THEN acc
    ELSE IF s[i] = "'"
    THEN LET closes == {j \in (i + 1)..Len(s) : s[j] = "'"}
             j == CHOOSE x \in closes : \A y \in closes : x <= y
         IN  IF closes # {}
             THEN quoteREFrom(s, j + 1, Append(acc, SubSeq(s, i + 1, j - 1)))
             ELSE quoteREFrom(s, i + 1, acc)
    ELSE quoteREFrom(s, i + 1, acc)

\* The first submatch of every match of quoteRE = '([^']*)' in s.
quoteRE(s) == quoteREFrom(s, 1, <<>>)

Rejected == [acc |-> <<>>, ok |-> FALSE]

\* The token loop of fmtAccel and its final join.
fmtTokens(spec, lbl) ==
    LET toks == tokenRE(spec)
        out  == [i \in DOMAIN toks |->
                   LET t == toks[i]
                   IN  IF t \in DOMAIN lbl /\ lbl[t] # <<>> THEN lbl[t]
                       ELSE IF HasPrefix(t, <<"<">>) /\ HasSuffix(t, <<">">>)
                            THEN humanise(Trim(t, {"<", ">"}))
                            ELSE humanise(t)]
    IN  IF Len(out) = 0 THEN Rejected
        ELSE [acc |-> Join(out, <<" ","+"," ">>), ok |-> TRUE]

\* fmtAccel without the media-key test.
fmtAccelKeepMedia(spec, lbl) == fmtTokens(spec, lbl)

\* fmtAccel(spec, lbl) (string, bool)
fmtAccel(spec, lbl) ==
    IF Contains(spec, <<"X","F","8","6">>) THEN Rejected ELSE fmtTokens(spec, lbl)

(*──────────────────────── immutable Mutter shortcuts ────────────────────*)

coreShortcuts == <<
    [spec |-> <<"<","S","u","p","e","r",">">>,       action |-> <<"S","h","o","w"," ","A","c","t","i","v","i","t","i","e","s"," ","/"," ","S","e","a","r","c","h">>],
    [spec |-> <<"<","S","u","p","e","r",">","+","L","e","f","t">>,  action |-> <<"T","i","l","e"," ","W","i","n","d","o","w"," ","L","e","f","t">>],
    [spec |-> <<"<","S","u","p","e","r",">","+","R","i","g","h","t">>, action |-> <<"T","i","l","e"," ","W","i","n","d","o","w"," ","R","i","g","h","t">>],
    [spec |-> <<"<","S","u","p","e","r",">","+","U","p">>,    action |-> <<"M","a","x","i","m","i","s","e"," ","W","i","n","d","o","w">>],
    [spec |-> <<"<","S","u","p","e","r",">","+","D","o","w","n">>,  action |-> <<"R","e","s","t","o","r","e"," ","/"," ","M","i","n","i","m","i","s","e"," ","W","i","n","d","o","w">>] >>

(*──────────────────────── schema ordering ───────────────────────────────*)

\* The *.gschema.xml files under schemaDirs in the order WalkDir visits them:
\* the schema ids each file declares and the names of its <key> elements in
\* file order.  org.gnome.someapp.keybindings is declared by no file.
SchemaFiles == <<
    [ids  |-> {<<"o","r","g",".","g","n","o","m","e",".","d","e","s","k","t","o","p",".","w","m",".","k","e","y","b","i","n","d","i","n","g","s">>},
     keys |-> <<<<"a","c","t","i","v","a","t","e","-","w","i","n","d","o","w","-","m","e","n","u">>, <<"s","w","i","t","c","h","-","i","n","p","u","t","-","s","o","u","r","c","e">>>>],
    [ids  |-> {<<"o","r","g",".","g","n","o","m","e",".","m","u","t","t","e","r">>, <<"o","r","g",".","g","n","o","m","e",".","m","u","t","t","e","r",".","k","e","y","b","i","n","d","i","n","g","s">>},
     keys |-> <<<<"t","o","g","g","l","e","-","t","i","l","e","d","-","l","e","f","t">>, <<"t","o","g","g","l","e","-","t","i","l","e","d","-","r","i","g","h","t">>>>],
    [ids  |-> {<<"o","r","g",".","g","n","o","m","e",".","s","h","e","l","l">>, <<"o","r","g",".","g","n","o","m","e",".","s","h","e","l","l",".","k","e","y","b","i","n","d","i","n","g","s">>},
     keys |-> <<<<"f","a","v","o","r","i","t","e","-","a","p","p","s">>, <<"t","o","g","g","l","e","-","o","v","e","r","v","i","e","w">>>>] >>

loadKeyOrder(schemaID) ==
    LET found == {i \in DOMAIN SchemaFiles : schemaID \in SchemaFiles[i].ids}
    IN  IF found = {} THEN EmptyMap
        ELSE LET keys == SchemaFiles[CHOOSE i \in found : \A j \in found : i <= j].keys
             IN  [name \in Range(keys) |->
                    (CHOOSE i \in DOMAIN keys :
                        keys[i] = name /\ \A j \in DOMAIN keys : keys[j] = name => j <= i) - 1]

\* very large => "last"
BigOrder == 1048576

(*──────────────────────── schema -> app & rank ──────────────────────────*)

RankStatic == -1
RankWM == 0
RankShell == 1
RankApp == 2
RankCustom == 3

classify(schema, key) ==
    IF \/ Contains(schema, <<".","d","e","s","k","t","o","p",".","w","m",".","k","e","y","b","i","n","d","i","n","g","s">>)
       \/ Contains(schema, <<".","m","u","t","t","e","r",".","w","a","y","l","a","n","d",".","k","e","y","b","i","n","d","i","n","g","s">>)
       \/ Contains(schema, <<".","m","u","t","t","e","r",".","k","e","y","b","i","n","d","i","n","g","s">>)
    THEN [app |-> <<"W","i","n","d","o","w"," ","M","a","n","a","g","e","r">>, rank |-> RankWM]
    ELSE IF Contains(schema, <<".","s","h","e","l","l",".","k","e","y","b","i","n","d","i","n","g","s">>)
    THEN [app |-> <<"G","N","O","M","E"," ","S","h","e","l","l">>, rank |-> RankShell]
    ELSE IF Contains(schema, <<".","s","e","t","t","i","n","g","s","-","d","a","e","m","o","n",".","p","l","u","g","i","n","s",".","m","e","d","i","a","-","k","e","y","s">>)
    THEN [app |-> <<"M","e","d","i","a"," ","K","e","y","s">>, rank |-> RankShell]
    ELSE IF Contains(schema, <<".","c","u","s","t","o","m","-","k","e","y","b","i","n","d","i","n","g">>)
    THEN [app |-> <<"C","u","s","t","o","m">>, rank |-> RankCustom]
    ELSE LET t1  == TrimPrefix(TrimSuffix(schema, <<".","k","e","y","b","i","n","d","i","n","g","s">>), <<"o","r","g",".">>)
             idx == Index(t1, <<".">>)
             t2  == IF idx >= 0 THEN From(t1, idx + 1) ELSE t1
             seg == From(t2, LastIndexByte(t2, ".") + 1)
         IN  [app |-> humanise(seg), rank |-> RankApp]

(*──────────────────────── the settings dump ─────────────────────────────*)

\* The lines `gsettings list-recursively` may print; a dump is any sequence
\* of at most MaxLines of them, in any order and with repetitions.
Lines == <<
    <<"o","r","g",".","g","n","o","m","e",".","d","e","s","k","t","o","p",".","w","m",".","k","e","y","b","i","n","d","i","n","g","s"," ","s","w","i","t","c","h","-","i","n","p","u","t","-","s","o","u","r","c","e"," ","[","'","<","S","u","p","e","r",">","s","p","a","c","e","'",","," ","'","X","F","8","6","K","e","y","b","o","a","r","d","'","]">>,
    <<"o","r","g",".","g","n","o","m","e",".","d","e","s","k","t","o","p",".","w","m",".","k","e","y","b","i","n","d","i","n","g","s"," ","a","c","t","i","v","a","t","e","-","w","i","n","d","o","w","-","m","e","n","u"," ","[","'","<","A","l","t",">","s","p","a","c","e","'",","," ","'","<","S","u","p","e","r",">","s","p","a","c","e","'","]">>,
    <<"o","r","g",".","g","n","o","m","e",".","m","u","t","t","e","r",".","k","e","y","b","i","n","d","i","n","g","s"," ","t","o","g","g","l","e","-","t","i","l","e","d","-","l","e","f","t"," ","[","'","<","S","u","p","e","r",">","L","e","f","t","'",","," ","'","<","S","u","p","e","r",">","s","p","a","c","e","'","]">>,
    <<"o","r","g",".","g","n","o","m","e",".","s","h","e","l","l",".","k","e","y","b","i","n","d","i","n","g","s"," ","t","o","g","g","l","e","-","m","e","s","s","a","g","e","-","t","r","a","y"," ","[","'","<","S","u","p","e","r",">","s","p","a","c","e","'","]">>,
    <<"o","r","g",".","g","n","o","m","e",".","s","o","m","e","a","p","p",".","k","e","y","b","i","n","d","i","n","g","s"," ","o","p","e","n","-","t","h","i","n","g"," ","[","'","<","S","u","p","e","r",">","t","'","]">>,
    <<"o","r","g",".","g","n","o","m","e",".","s","e","t","t","i","n","g","s","-","d","a","e","m","o","n",".","p","l","u","g","i","n","s",".","m","e","d","i","a","-","k","e","y","s",".","c","u","s","t","o","m","-","k","e","y","b","i","n","d","i","n","g",":","/","c","u","s","t","o","m","0","/"," ","b","i","n","d","i","n","g"," ","'","<","S","u","p","e","r",">","t","'">>,
    <<"o","r","g",".","g","n","o","m","e",".","s","e","t","t","i","n","g","s","-","d","a","e","m","o","n",".","p","l","u","g","i","n","s",".","m","e","d","i","a","-","k","e","y","s",".","c","u","s","t","o","m","-","k","e","y","b","i","n","d","i","n","g",":","/","c","u","s","t","o","m","0","/"," ","c","o","m","m","a","n","d"," ","'","/","u","s","r","/","b","i","n","/","g","n","o","m","e","-","t","e","r","m","i","n","a","l","'">>,
    <<"o","r","g",".","g","n","o","m","e",".","s","e","t","t","i","n","g","s","-","d","a","e","m","o","n",".","p","l","u","g","i","n","s",".","m","e","d","i","a","-","k","e","y","s",".","c","u","s","t","o","m","-","k","e","y","b","i","n","d","i","n","g",":","/","c","u","s","t","o","m","0","/"," ","n","a","m","e"," ","'","T","e","r","m","i","n","a","l","'">>,
    <<"o","r","g",".","g","n","o","m","e",".","s","e","t","t","i","n","g","s","-","d","a","e","m","o","n",".","p","l","u","g","i","n","s",".","m","e","d","i","a","-","k","e","y","s",".","c","u","s","t","o","m","-","k","e","y","b","i","n","d","i","n","g",":","/","c","u","s","t","o","m","1","/"," ","b","i","n","d","i","n","g"," ","'","<","S","u","p","e","r",">","T","'">>,
    <<"o","r","g",".","g","n","o","m","e",".","s","e","t","t","i","n","g","s","-","d","a","e","m","o","n",".","p","l","u","g","i","n","s",".","m","e","d","i","a","-","k","e","y","s",".","c","u","s","t","o","m","-","k","e","y","b","i","n","d","i","n","g",":","/","c","u","s","t","o","m","1","/"," ","c","o","m","m","a","n","d"," ","'","-","'">>,
    <<"o","r","g",".","g","n","o","m","e",".","s","e","t","t","i","n","g","s","-","d","a","e","m","o","n",".","p","l","u","g","i","n","s",".","m","e","d","i","a","-","k","e","y","s",".","c","u","s","t","o","m","-","k","e","y","b","i","n","d","i","n","g",":","/","c","u","s","t","o","m","1","/"," ","b","i","n","d","i","n","g"," ","'","<","S","u","p","e","r",">","L","e","f","t","'">>,
    <<"o","r","g",".","g","n","o","m","e",".","d","e","s","k","t","o","p",".","i","n","t","e","r","f","a","c","e"," ","c","l","o","c","k","-","f","o","r","m","a","t"," ","'","2","4","h","'">> >>

(*──────────────────────── state ─────────────────────────────────────────*)

VARIABLES
    lay,            \* the layout selected by layout()
    dump,           \* the lines gsettingsDump returned, as indices into Lines
    pos,            \* number of lines the scanner has delivered in this run
    pc,             \* "scan", "custom", "collected", "done"
    run,            \* number of the current execution of main
    chosen,         \* part_000: accelerator -> chosen row
    customMap,      \* path -> custom{bind, name, cmd}
    keyOrderCache,  \* part_000: schema -> key -> order
    todo,           \* keys of customMap the range loop has not visited yet
    rows,           \* the slice collect returned, as the set of its rows
    printed,        \* rows after sort.Slice, in printing order
    unique,         \* gnome_shortcuts.go: id -> row
    loads,          \* history: schema -> number of loadKeyOrder calls in this run
    cands,          \* history: the schema candidates of this run, in dump order
    origin,         \* history: accelerator -> where its chosen row came from
    observed,       \* history: path -> the keys seen for it in this run
    firstRows,      \* history: rows of the first execution
    firstPrinted    \* history: printed of the first execution

vars == <<lay, dump, pos, pc, run, chosen, customMap, keyOrderCache, todo, rows,
          printed, unique, loads, cands, origin, observed, firstRows, firstPrinted>>

Init ==
    /\ lay \in Layouts
    /\ dump = <<>>
    /\ pos = 0
    /\ pc = "scan"
    /\ run = 1
    /\ chosen = EmptyMap
    /\ customMap = EmptyMap
    /\ keyOrderCache = EmptyMap
    /\ todo = {}
    /\ rows = {}
    /\ printed = <<>>
    /\ unique = EmptyMap
    /\ loads = EmptyMap
    /\ cands = <<>>
    /\ origin = EmptyMap
    /\ observed = EmptyMap
    /\ firstRows = {}
    /\ firstPrinted = <<>>

(*──────────────────────── gather gsettings bindings ─────────────────────*)

\* sc.Scan(): the first execution reads whatever gsettings prints, a later
\* execution on the same settings reads the same lines again.
Delivers(l) ==
    /\ pc = "scan"
    /\ IF run = 1
       THEN pos < MaxLines /\ dump' = Append(dump, l)
       ELSE pos < Len(dump) /\ l = dump[pos + 1] /\ dump' = dump
    /\ pos' = pos + 1

\* f := strings.Fields(line); schema, key := f[0], f[1]; val := Join(f[2:], " ")
Parse(line) ==
    LET f == Fields(line)
    IN  IF Len(f) < 3 THEN [short |-> TRUE, schema |-> <<>>, key |-> <<>>, val |-> <<>>]
        ELSE [short |-> FALSE, schema |-> f[1], key |-> f[2],
              val |-> Join(SubSeq(f, 3, Len(f)), <<" ">>)]

\* The parse of every line of Lines.
parsed == [l \in DOMAIN Lines |-> Parse(Lines[l])]

isCustom(schema) == Contains(schema, <<".","c","u","s","t","o","m","-","k","e","y","b","i","n","d","i","n","g">>)

isKeybinding(schema) == Contains(schema, <<"k","e","y","b","i","n","d","i","n","g">>)

\* The custom-keybinding branch of the scan loop: the custom of the path with
\* the field named by key replaced.
customSet(cm, ln) ==
    LET p == From(ln.schema, Index(ln.schema, <<":">>) + 1)
        c == IF p \in DOMAIN cm THEN cm[p] ELSE [bind |-> <<>>, name |-> <<>>, cmd |-> <<>>]
        v == Trim(ln.val, {"'"})
    IN  Put(cm, p,
            IF ln.key = <<"b","i","n","d","i","n","g">> THEN [c EXCEPT !.bind = v]
            ELSE IF ln.key = <<"n","a","m","e">> THEN [c EXCEPT !.name = v]
            ELSE IF ln.key = <<"c","o","m","m","a","n","d">> THEN [c EXCEPT !.cmd = v]
            ELSE c)

customPath(ln) == From(ln.schema, Index(ln.schema, <<":">>) + 1)

\* The cache test of orderIdx that also reloads a schema whose mapping is empty.
cacheHitNonEmpty(cache, schema) == schema \in DOMAIN cache /\ cache[schema] # EmptyMap

\* m, ok := keyOrderCache[schema]
cacheHit(cache, schema) == schema \in DOMAIN cache

\* keyOrderCache after orderIdx(schema, key)
orderIdxCache(cache, schema) ==
    IF cacheHit(cache, schema) THEN cache ELSE Put(cache, schema, loadKeyOrder(schema))

\* The value orderIdx(schema, key) returns.
orderIdx(cache, schema, key) ==
    LET m == orderIdxCache(cache, schema)[schema]
    IN  IF key \in DOMAIN m THEN m[key] ELSE BigOrder

\* The replacement test of the schema pass with <= on the order.
betterOrEqual(ch, acc, rank, ord) ==
    \/ acc \notin DOMAIN ch
    \/ rank < ch[acc].rank
    \/ (rank = ch[acc].rank /\ ord <= ch[acc].order)

\* rOld, ok := chosen[acc]; !ok || rank < rOld.rank || (rank == rOld.rank && ord < rOld.order)
better(ch, acc, rank, ord) ==
    \/ acc \notin DOMAIN ch
    \/ rank < ch[acc].rank
    \/ (rank = ch[acc].rank /\ ord < ch[acc].order)

RECURSIVE schemaLoop(_, _, _, _, _, _, _, _, _)
\* for _, m := range quoteRE.FindAllStringSubmatch(val, -1) { ... }
\* st holds chosen with the histories origin and cands.
schemaLoop(st, specs, i, schema, key, app, rank, ord, lbl) ==
    IF i > Len(specs) THEN st
    ELSE LET a == fmtAccel(specs[i], lbl)
             r == [accel |-> a.acc, app |-> app, action |-> humanise(key),
                   rank |-> rank, order |-> ord]
         IN  IF ~a.ok THEN schemaLoop(st, specs, i + 1, schema, key, app, rank, ord, lbl)
             ELSE schemaLoop(
                    [chosen |-> IF better(st.chosen, a.acc, rank, ord)
                                THEN Put(st.chosen, a.acc, r) ELSE st.chosen,
                     origin |-> IF better(st.chosen, a.acc, rank, ord)
                                THEN Put(st.origin, a.acc,
                                         [kind |-> "schema", spec |-> specs[i], path |-> <<>>])
                                ELSE st.origin,
                     cands  |-> Append(st.cands, [row |-> r, spec |-> specs[i],
                                                 schema |-> schema, key |-> key])],
                    specs, i + 1, schema, key, app, rank, ord, lbl)

\* One iteration of `for sc.Scan()` in collect of part_000.
ScanLine(l) ==
    /\ Delivers(l)
    /\ LET ln == parsed[l]
       IN  IF ln.short
           THEN UNCHANGED <<chosen, customMap, keyOrderCache, loads, cands, origin, observed>>
           ELSE IF isCustom(ln.schema)
           THEN /\ customMap' = customSet(customMap, ln)
                /\ observed' = Put(observed, customPath(ln),
                                   (IF customPath(ln) \in DOMAIN observed
                                    THEN observed[customPath(ln)] ELSE {}) \cup {ln.key})
                /\ UNCHANGED <<chosen, keyOrderCache, loads, cands, origin>>
           ELSE IF ~isKeybinding(ln.schema)
           THEN UNCHANGED <<chosen, customMap, keyOrderCache, loads, cands, origin, observed>>
           ELSE LET cl == classify(ln.schema, ln.key)
                    st == schemaLoop([chosen |-> chosen, origin |-> origin, cands |-> cands],
                                     quoteRE(ln.val), 1, ln.schema, ln.key, cl.app, cl.rank,
                                     orderIdx(keyOrderCache, ln.schema, ln.key), modLabels(lay))
                IN  /\ keyOrderCache' = orderIdxCache(keyOrderCache, ln.schema)
                    /\ loads' = IF cacheHit(keyOrderCache, ln.schema) THEN loads
                                ELSE Put(loads, ln.schema,
                                         (IF ln.schema \in DOMAIN loads
                                          THEN loads[ln.schema] ELSE 0) + 1)
                    /\ chosen' = st.chosen
                    /\ origin' = st.origin
                    /\ cands' = st.cands
                    /\ UNCHANGED <<customMap, observed>>
    /\ UNCHANGED <<lay, pc, run, todo, rows, printed, unique, firstRows, firstPrinted>>

\* sc.Scan() returns false: the range loop over customMap starts.
ScanEOF ==
    /\ pc = "scan"
    /\ IF run = 1 THEN TRUE ELSE pos = Len(dump)
    /\ pc' = "custom"
    /\ todo' = DOMAIN customMap
    /\ UNCHANGED <<lay, dump, pos, run, chosen, customMap, keyOrderCache, rows, printed,
                   unique, loads, cands, origin, observed, firstRows, firstPrinted>>

\* The test of the custom loop that never finds the accelerator taken.
takenNever(ch, acc) == FALSE

\* if _, ok := chosen[acc]; ok { continue }
taken(ch, acc) == acc \in DOMAIN ch

\* The row of a custom binding with the command humanised as the action.
customRowHumanised(c, acc) ==
    [accel  |-> acc,
     app    |-> IF humanise(Base(c.cmd)) = <<>> THEN <<"C","u","s","t","o","m">> ELSE humanise(Base(c.cmd)),
     action |-> IF humanise(c.name) = <<>> THEN humanise(c.cmd) ELSE humanise(c.name),
     rank   |-> RankCustom,
     order  |-> 0]

\* row{acc, app, act, 3, 0} of the custom loop
customRow(c, acc) ==
    [accel  |-> acc,
     app    |-> IF humanise(Base(c.cmd)) = <<>> THEN <<"C","u","s","t","o","m">> ELSE humanise(Base(c.cmd)),
     action |-> IF humanise(c.name) = <<>> THEN c.cmd ELSE humanise(c.name),
     rank   |-> RankCustom,
     order  |-> 0]

\* One iteration of `for _, c := range customMap`: Go visits the entries of a
\* map in an unspecified order, so any entry not yet visited may come next.
AttachCustom(p) ==
    /\ pc = "custom"
    /\ p \in todo
    /\ todo' = todo \ {p}
    /\ LET c == customMap[p]
           a == fmtAccel(c.bind, modLabels(lay))
       IN  IF a.ok /\ ~taken(chosen, a.acc)
           THEN /\ chosen' = Put(chosen, a.acc, customRow(c, a.acc))
                /\ origin' = Put(origin, a.acc,
                                 [kind |-> "custom", spec |-> c.bind, path |-> p])
           ELSE UNCHANGED <<chosen, origin>>
    /\ UNCHANGED <<lay, dump, pos, pc, run, customMap, keyOrderCache, rows, printed,
                   unique, loads, cands, observed, firstRows, firstPrinted>>

\* The row of coreShortcuts[i] (i counted from 0) under the accelerator acc.
coreRow(i, acc) ==
    [accel |-> acc, app |-> <<"W","i","n","d","o","w"," ","M","a","n","a","g","e","r">>, action |-> coreShortcuts[i + 1].action,
     rank |-> RankStatic, order |-> i]

\* A core shortcut that yields to a row already chosen.
coreYield(ch, acc, r) == IF acc \in DOMAIN ch THEN ch ELSE Put(ch, acc, r)

\* chosen[acc] = row{acc, "Window Manager", s.action, -1, i}
coreOverride(ch, acc, r) == Put(ch, acc, r)

RECURSIVE coreLoop(_, _, _)
\* for i, s := range coreShortcuts { ... }
coreLoop(st, i, lbl) ==
    IF i >= Len(coreShortcuts) THEN st
    ELSE LET a == fmtAccel(coreShortcuts[i + 1].spec, lbl)
         IN  IF ~a.ok THEN coreLoop(st, i + 1, lbl)
             ELSE coreLoop(
                    [chosen |-> coreOverride(st.chosen, a.acc, coreRow(i, a.acc)),
                     origin |-> IF coreOverride(st.chosen, a.acc, coreRow(i, a.acc))[a.acc]
                                     = coreRow(i, a.acc)
                                THEN Put(st.origin, a.acc,
                                         [kind |-> "static", spec |-> coreShortcuts[i + 1].spec,
                                          path |-> <<>>])
                                ELSE st.origin],
                    i + 1, lbl)

\* The end of collect: the core shortcuts override everything and the rows
\* of chosen are returned.
CoreShortcuts ==
    /\ pc = "custom"
    /\ todo = {}
    /\ LET st == coreLoop([chosen |-> chosen, origin |-> origin], 0, modLabels(lay))
       IN  /\ chosen' = st.chosen
           /\ origin' = st.origin
           /\ rows' = Range(st.chosen)
    /\ pc' = "collected"
    /\ UNCHANGED <<lay, dump, pos, run, customMap, keyOrderCache, todo, printed, unique,
                   loads, cands, observed, firstRows, firstPrinted>>

(*──────────────────────── main ──────────────────────────────────────────*)

\* The less function main hands to sort.Slice.
less(a, b) ==
    IF a.rank # b.rank THEN a.rank < b.rank
    ELSE IF a.order # b.order THEN a.order < b.order
    ELSE IF a.app # b.app THEN StrLess(a.app, b.app)
    ELSE StrLess(a.action, b.action)

RECURSIVE sortSlice(_)
\* Every order sort.Slice can leave the rows in: the slice arrives in map
\* iteration order and the sort is not stable, so rows that less does not
\* separate may come out either way round.
sortSlice(S) ==
    IF S = {} THEN {<<>>}
    ELSE UNION {{<<r>> \o t : t \in sortSlice(S \ {r})} :
                r \in {r \in S : \A q \in S : ~less(q, r)}}

\* sort.Slice(rows, ...) and the printing loop of main.
SortRows ==
    /\ pc = "collected"
    /\ printed' \in sortSlice(rows)
    /\ pc' = "done"
    /\ firstRows' = IF run = 1 THEN rows ELSE firstRows
    /\ firstPrinted' = IF run = 1 THEN printed' ELSE firstPrinted
    /\ UNCHANGED <<lay, dump, pos, run, chosen, customMap, keyOrderCache, todo, rows,
                   unique, loads, cands, origin, observed>>

\* The program is started again on the same settings, schema files and layout.
Rerun ==
    /\ pc = "done"
    /\ run < MaxRuns
    /\ run' = run + 1
    /\ pc' = "scan"
    /\ pos' = 0
    /\ chosen' = EmptyMap
    /\ customMap' = EmptyMap
    /\ keyOrderCache' = EmptyMap
    /\ todo' = {}
    /\ rows' = {}
    /\ printed' = <<>>
    /\ loads' = EmptyMap
    /\ cands' = <<>>
    /\ origin' = EmptyMap
    /\ observed' = EmptyMap
    /\ UNCHANGED <<lay, dump, unique, firstRows, firstPrinted>>

Next ==
    \/ \E l \in DOMAIN Lines : ScanLine(l)
    \/ ScanEOF
    \/ \E p \in todo : AttachCustom(p)
    \/ CoreShortcuts
    \/ SortRows

Spec == Init /\ [][Next]_vars

NextTwice == Next \/ Rerun

\* Executions of main repeated on the same input.
SpecTwice == Init /\ [][NextTwice]_vars

(*──────────────────────── src/gnome_shortcuts.go ────────────────────────*)

OldRankStatic == 0
OldRankWM == 1
OldRankShell == 2
OldRankApp == 3
OldRankCustom == 4
OldPrio == 1000

\* classify of gnome_shortcuts.go
classifyOld(schema) ==
    IF \/ Contains(schema, <<".","d","e","s","k","t","o","p",".","w","m",".","k","e","y","b","i","n","d","i","n","g","s">>)
       \/ Contains(schema, <<".","m","u","t","t","e","r",".","w","a","y","l","a","n","d",".","k","e","y","b","i","n","d","i","n","g","s">>)
       \/ Contains(schema, <<".","m","u","t","t","e","r",".","k","e","y","b","i","n","d","i","n","g","s">>)
    THEN [app |-> <<"W","i","n","d","o","w"," ","M","a","n","a","g","e","r">>, rank |-> OldRankWM]
    ELSE IF Contains(schema, <<".","s","h","e","l","l",".","k","e","y","b","i","n","d","i","n","g","s">>)
    THEN [app |-> <<"G","N","O","M","E"," ","S","h","e","l","l">>, rank |-> OldRankShell]
    ELSE IF Contains(schema, <<".","s","e","t","t","i","n","g","s","-","d","a","e","m","o","n",".","p","l","u","g","i","n","s",".","m","e","d","i","a","-","k","e","y","s">>)
    THEN [app |-> <<"M","e","d","i","a"," ","K","e","y","s">>, rank |-> OldRankShell]
    ELSE IF Contains(schema, <<".","c","u","s","t","o","m","-","k","e","y","b","i","n","d","i","n","g">>)
    THEN [app |-> <<"C","u","s","t","o","m">>, rank |-> OldRankCustom]
    ELSE LET t1 == TrimPrefix(TrimSuffix(schema, <<".","k","e","y","b","i","n","d","i","n","g","s">>), <<"o","r","g",".">>)
             t2 == From(t1, Index(t1, <<".">>) + 1)
         IN  [app |-> humanise(From(t2, LastIndexByte(t2, ".") + 1)), rank |-> OldRankApp]

RECURSIVE uniqueLoop(_, _, _, _, _, _)
\* for _, m := range quoteRE.FindAllStringSubmatch(val, -1) { ... unique[id] = row{...} }
uniqueLoop(u, specs, i, schema, key, lbl) ==
    IF i > Len(specs) THEN u
    ELSE LET a  == fmtAccel(specs[i], lbl)
             cl == classifyOld(schema)
             id == schema \o <<":">> \o key \o <<":">> \o specs[i]
         IN  IF ~a.ok THEN uniqueLoop(u, specs, i + 1, schema, key, lbl)
             ELSE uniqueLoop(Put(u, id, [accel |-> a.acc, app |-> cl.app,
                                         action |-> humanise(key), rank |-> cl.rank,
                                         prio |-> OldPrio]),
                             specs, i + 1, schema, key, lbl)

\* One iteration of `for sc.Scan()` in collect of gnome_shortcuts.go.
OldScanLine(l) ==
    /\ Delivers(l)
    /\ LET ln == parsed[l]
       IN  IF ln.short
           THEN UNCHANGED <<customMap, unique>>
           ELSE IF isCustom(ln.schema)
           THEN customMap' = customSet(customMap, ln) /\ UNCHANGED unique
           ELSE IF ~isKeybinding(ln.schema)
           THEN UNCHANGED <<customMap, unique>>
           ELSE /\ unique' = uniqueLoop(unique, quoteRE(ln.val), 1, ln.schema, ln.key,
                                        modLabels(lay))
                /\ UNCHANGED customMap
    /\ UNCHANGED <<lay, pc, run, chosen, keyOrderCache, todo, rows, printed, loads, cands,
                   origin, observed, firstRows, firstPrinted>>

\* One iteration of `for _, c := range customMap` in gnome_shortcuts.go.
OldAddCustom(p) ==
    /\ pc = "custom"
    /\ p \in todo
    /\ todo' = todo \ {p}
    /\ LET c == customMap[p]
           a == fmtAccel(c.bind, modLabels(lay))
       IN  IF a.ok
           THEN unique' = Put(unique, <<"c","u","s","t","o","m",":">> \o c.bind,
                    [accel  |-> a.acc,
                     app    |-> IF humanise(Base(c.cmd)) = <<>> THEN <<"C","u","s","t","o","m">>
                                ELSE humanise(Base(c.cmd)),
                     action |-> IF humanise(c.name) = <<>> THEN c.cmd ELSE humanise(c.name),
                     rank   |-> OldRankCustom,
                     prio   |-> OldPrio])
           ELSE UNCHANGED unique
    /\ UNCHANGED <<lay, dump, pos, pc, run, chosen, customMap, keyOrderCache, rows, printed,
                   loads, cands, origin, observed, firstRows, firstPrinted>>

RECURSIVE staticLoop(_, _, _)
\* for i, s := range coreShortcuts { ... unique["static:"+s.spec] = row{...} }
staticLoop(u, i, lbl) ==
    IF i >= Len(coreShortcuts) THEN u
    ELSE LET s == coreShortcuts[i + 1]
             a == fmtAccel(s.spec, lbl)
         IN  IF ~a.ok THEN staticLoop(u, i + 1, lbl)
             ELSE staticLoop(Put(u, <<"s","t","a","t","i","c",":">> \o s.spec,
                                 [accel |-> a.acc, app |-> <<"W","i","n","d","o","w"," ","M","a","n","a","g","e","r">>,
                                  action |-> s.action, rank |-> OldRankStatic, prio |-> i]),
                             i + 1, lbl)

\* The end of collect of gnome_shortcuts.go: out holds one row per entry of unique.
OldAddStatic ==
    /\ pc = "custom"
    /\ todo = {}
    /\ unique' = staticLoop(unique, 0, modLabels(lay))
    /\ pc' = "collected"
    /\ UNCHANGED <<lay, dump, pos, run, chosen, customMap, keyOrderCache, todo, rows,
                   printed, loads, cands, origin, observed, firstRows, firstPrinted>>

NextOld ==
    \/ \E l \in DOMAIN Lines : OldScanLine(l)
    \/ ScanEOF
    \/ \E p \in todo : OldAddCustom(p)
    \/ OldAddStatic

\* collect of src/gnome_shortcuts.go
SpecOld == Init /\ [][NextOld]_vars

(*──────────────────────── properties ────────────────────────────────────*)

Collected == pc \in {"collected", "done"}

lbls == modLabels(lay)

\* The accelerators the schema candidates of this run were normalised to.
candAccels == {cands[i].row.accel : i \in DOMAIN cands}

\* The accelerators of coreShortcuts under the selected layout.
coreAccels == {fmtAccel(coreShortcuts[i].spec, lbls).acc : i \in DOMAIN coreShortcuts}

\* (rank, order) of a is lexicographically smaller than that of b.
pairLess(a, b) == a.rank < b.rank \/ (a.rank = b.rank /\ a.order < b.order)

\* C1: once collect of part_000 has returned, every entry of coreShortcuts has
\* exactly one row under its normalised accelerator, and that row is the static
\* one: its action, "Window Manager", rank -1 and order equal to the entry's
\* index, whatever schema or custom candidate was bound to the same accelerator.
C1_StaticWins ==
    Collected =>
        \A i \in 0..(Len(coreShortcuts) - 1) :
            LET acc == fmtAccel(coreShortcuts[i + 1].spec, lbls).acc
            IN  {r \in rows : r.accel = acc} =
                    {[accel |-> acc, app |-> <<"W","i","n","d","o","w"," ","M","a","n","a","g","e","r">>,
                      action |-> coreShortcuts[i + 1].action, rank |-> -1, order |-> i]}

\* A schema candidate and a custom binding were both bound to accelerators of
\* coreShortcuts, and collect has returned.
C1_Witness ==
    /\ pc = "collected"
    /\ candAccels \cap coreAccels # {}
    /\ \E p \in DOMAIN customMap : fmtAccel(customMap[p].bind, lbls).acc \in coreAccels

\* C2: collect returns at most one row per canonical accelerator: no two
\* entries of the out slice of gnome_shortcuts.go (one per id of unique) and no
\* two rows returned by part_000 have the same accel.
C2_OneRowPerAccel ==
    Collected =>
        /\ \A id1, id2 \in DOMAIN unique :
               unique[id1].accel = unique[id2].accel => id1 = id2
        /\ \A r1, r2 \in rows : r1.accel = r2.accel => r1 = r2

\* C3: during the schema pass of part_000, the row retained for an accelerator
\* is the first, in dump order, of the schema candidates seen so far for that
\* accelerator whose (rank, order) pair is smallest, and every accelerator with
\* a candidate has a row.
C3_SmallestPairFirstSeen ==
    pc = "scan" =>
        /\ DOMAIN chosen = candAccels
        /\ \A acc \in candAccels :
               LET idx  == {i \in DOMAIN cands : cands[i].row.accel = acc}
                   mins == {i \in idx : \A j \in idx : ~pairLess(cands[j].row, cands[i].row)}
                   frst == CHOOSE i \in mins : \A j \in mins : i <= j
               IN  chosen[acc] = cands[frst].row

\* For one accelerator the pass has seen a candidate, then a strictly smaller
\* one, then a different candidate with the same pair as the smaller one.
C3_Witness ==
    /\ pc = "scan"
    /\ \E i, j, k \in DOMAIN cands :
           /\ i < j /\ j < k
           /\ cands[i].row.accel = cands[j].row.accel
           /\ cands[j].row.accel = cands[k].row.accel
           /\ pairLess(cands[j].row, cands[i].row)
           /\ ~pairLess(cands[j].row, cands[k].row)
           /\ ~pairLess(cands[k].row, cands[j].row)
           /\ cands[j].row # cands[k].row

\* C4: resolution is deterministic: a second execution of part_000 on the same
\* dump, schema files and layout returns the same set of rows as the first.
C4_Deterministic ==
    (run > 1 /\ Collected) => rows = firstRows

\* C5: a custom binding never displaces a schema candidate and fills the
\* accelerators nobody else claims: the final row of an accelerator that had a
\* schema candidate is not a custom row, and a custom path whose binding
\* normalises to an accelerator with no schema candidate and no core shortcut
\* has a custom row of rank 3 there.
C5_CustomNeverDisplaces ==
    Collected =>
        /\ \A acc \in candAccels :
               /\ origin[acc].kind # "custom"
               /\ chosen[acc].rank # 3
        /\ \A p \in DOMAIN customMap :
               LET a == fmtAccel(customMap[p].bind, lbls)
               IN  (a.ok /\ a.acc \notin candAccels /\ a.acc \notin coreAccels) =>
                       /\ a.acc \in DOMAIN chosen
                       /\ origin[a.acc].kind = "custom"
                       /\ chosen[a.acc].rank = 3
                       /\ chosen[a.acc] \in rows

\* The binding line of a custom path came before the schema line that claims
\* the same accelerator, and the schema row is the one returned.
C5_Witness ==
    /\ pc = "collected"
    /\ \E i, j \in DOMAIN dump :
           /\ i < j
           /\ isCustom(parsed[dump[i]].schema)
           /\ parsed[dump[i]].key = <<"b","i","n","d","i","n","g">>
           /\ isKeybinding(parsed[dump[j]].schema) /\ ~isCustom(parsed[dump[j]].schema)
           /\ \E n \in DOMAIN cands :
                  /\ cands[n].schema = parsed[dump[j]].schema
                  /\ cands[n].row.accel =
                         fmtAccel(Trim(parsed[dump[i]].val, {"'"}), lbls).acc
                  /\ origin[cands[n].row.accel].kind = "schema"
                  /\ cands[n].row \in rows

\* A custom path filled an accelerator that no schema record and no core
\* shortcut claims, while another custom path lost its accelerator to a core
\* shortcut.
CustomFills ==
    /\ pc = "collected"
    /\ \E acc \in DOMAIN origin : origin[acc].kind = "custom"
    /\ \E p \in DOMAIN customMap : fmtAccel(customMap[p].bind, lbls).acc \in coreAccels

\* The label of <Super> under the selected layout, as the documentation gives it.
SuperLabel ==
    CASE lay = "kbApple"  -> <<"C","o","m","m","a","n","d">>
      [] lay = "kbChrome" -> <<"S","e","a","r","c","h">>
      [] lay = "kbPC"     -> <<"W","i","n">>

\* C6: on an empty settings dump collect of part_000 returns exactly the five
\* rows of coreShortcuts, with the accelerators written with the layout's label
\* for <Super>: "Win + Left" under pc, "Command + Left" under apple.
C6_EmptyDump ==
    (Collected /\ dump = <<>>) =>
        /\ rows = {
             [accel |-> SuperLabel, app |-> <<"W","i","n","d","o","w"," ","M","a","n","a","g","e","r">>,
              action |-> <<"S","h","o","w"," ","A","c","t","i","v","i","t","i","e","s"," ","/"," ","S","e","a","r","c","h">>, rank |-> -1, order |-> 0],
             [accel |-> SuperLabel \o <<" ","+"," ","L","e","f","t">>, app |-> <<"W","i","n","d","o","w"," ","M","a","n","a","g","e","r">>,
              action |-> <<"T","i","l","e"," ","W","i","n","d","o","w"," ","L","e","f","t">>, rank |-> -1, order |-> 1],
             [accel |-> SuperLabel \o <<" ","+"," ","R","i","g","h","t">>, app |-> <<"W","i","n","d","o","w"," ","M","a","n","a","g","e","r">>,
              action |-> <<"T","i","l","e"," ","W","i","n","d","o","w"," ","R","i","g","h","t">>, rank |-> -1, order |-> 2],
             [accel |-> SuperLabel \o <<" ","+"," ","U","p">>, app |-> <<"W","i","n","d","o","w"," ","M","a","n","a","g","e","r">>,
              action |-> <<"M","a","x","i","m","i","s","e"," ","W","i","n","d","o","w">>, rank |-> -1, order |-> 3],
             [accel |-> SuperLabel \o <<" ","+"," ","D","o","w","n">>, app |-> <<"W","i","n","d","o","w"," ","M","a","n","a","g","e","r">>,
              action |-> <<"R","e","s","t","o","r","e"," ","/"," ","M","i","n","i","m","i","s","e"," ","W","i","n","d","o","w">>, rank |-> -1, order |-> 4] }
        /\ lay = "kbPC" => \E r \in rows : r.accel = <<"W","i","n"," ","+"," ","L","e","f","t">>
        /\ lay = "kbApple" => \E r \in rows : r.accel = <<"C","o","m","m","a","n","d"," ","+"," ","L","e","f","t">>

\* collect has returned on an empty dump under the apple layout.
C6_Witness == pc = "collected" /\ dump = <<>> /\ lay = "kbApple"

\* The schema lines read so far whose value lists both a spec with XF86 and
\* one without.
mixedLines ==
    {i \in 1..pos :
        LET ln == parsed[dump[i]]
        IN  /\ ~ln.short /\ ~isCustom(ln.schema) /\ isKeybinding(ln.schema)
            /\ \E s \in Range(quoteRE(ln.val)) : Contains(s, <<"X","F","8","6">>)
            /\ \E s \in Range(quoteRE(ln.val)) : ~Contains(s, <<"X","F","8","6">>)}

\* C7: no spec containing XF86 contributes a row: no schema candidate and no
\* chosen row of part_000 comes from such a spec, and a key whose value lists
\* an XF86 spec beside an ordinary one still contributes the ordinary one.
C7_NoMediaKeys ==
    /\ \A i \in DOMAIN cands : ~Contains(cands[i].spec, <<"X","F","8","6">>)
    /\ \A acc \in DOMAIN chosen : ~Contains(origin[acc].spec, <<"X","F","8","6">>)
    /\ \A i \in mixedLines :
           \A s \in Range(quoteRE(parsed[dump[i]].val)) :
               (~Contains(s, <<"X","F","8","6">>) /\ tokenRE(s) # <<>>) =>
                   \E n \in DOMAIN cands :
                       /\ cands[n].spec = s
                       /\ cands[n].key = parsed[dump[i]].key
                       /\ cands[n].row.accel \in DOMAIN chosen

\* A line listing an XF86 spec beside an ordinary one was read and collect
\* has returned a row of a schema candidate.
C7_Witness ==
    /\ pc = "collected"
    /\ mixedLines # {}
    /\ \E acc \in DOMAIN origin : origin[acc].kind = "schema"

\* C8: the presentation sort gives a total order: no two distinct rows returned
\* by collect of part_000 agree on rank, order, app and action, and a second
\* execution on the same resolved set prints the same sequence.
C8_TotalOrder ==
    pc = "done" =>
        /\ \A r1, r2 \in rows : r1 # r2 => (less(r1, r2) \/ less(r2, r1))
        /\ (run > 1 /\ rows = firstRows) => printed = firstPrinted

\* C9: within one run loadKeyOrder is called at most once per schema, also when
\* the first call returned an empty mapping; the cache holds what the one call
\* returned, and a key absent from the mapping gets order 1<<20.
C9_LoadedOnce ==
    /\ \A s \in DOMAIN loads : loads[s] <= 1
    /\ DOMAIN loads = DOMAIN keyOrderCache
    /\ \A i \in DOMAIN cands :
           LET c == cands[i]
           IN  /\ c.schema \in DOMAIN keyOrderCache
               /\ (c.key \notin DOMAIN keyOrderCache[c.schema]) => c.row.order = 1048576
               /\ (c.key \in DOMAIN keyOrderCache[c.schema]) =>
                      c.row.order = keyOrderCache[c.schema][c.key]

\* Lines of the dump read so far that name the schema s.
linesOf(s) == {i \in 1..pos : ~parsed[dump[i]].short /\ parsed[dump[i]].schema = s}

\* Two lines of a schema whose definition was not found have been read, and a
\* line of a schema whose definition was found but does not declare the key.
C9_Witness ==
    /\ \E s \in DOMAIN keyOrderCache :
           /\ keyOrderCache[s] = EmptyMap
           /\ Cardinality(linesOf(s)) >= 2
           /\ loads[s] = 1
    /\ \E i \in DOMAIN cands :
           /\ keyOrderCache[cands[i].schema] # EmptyMap
           /\ cands[i].row.order = 1048576

\* The custom rows of the result with the path each came from.
customAccels == {acc \in DOMAIN origin : origin[acc].kind = "custom"}

\* What C10 says of every custom row but the application label.
customAssembly(acc) ==
    LET p == origin[acc].path
        c == customMap[p]
    IN  /\ <<"b","i","n","d","i","n","g">> \in observed[p]
        /\ fmtAccel(c.bind, lbls) = [acc |-> acc, ok |-> TRUE]
        /\ \A other \in customAccels : origin[other].path = p => other = acc
        /\ (<<"c","o","m","m","a","n","d">> \in observed[p] /\ <<"n","a","m","e">> \notin observed[p]) =>
               chosen[acc].action = c.cmd

\* C10 as stated: custom assembly is per path and independent of line order; a
\* path yields a row only if a binding line was seen that normalises, at most
\* one row per path, and with binding and command but no name the action is the
\* raw command and the application label the humanised basename of the command.
C10_AppIsBasename ==
    Collected =>
        /\ \A p \in DOMAIN customMap :
               (<<"b","i","n","d","i","n","g">> \notin observed[p]) => \A acc \in customAccels : origin[acc].path # p
        /\ \A acc \in customAccels :
               /\ customAssembly(acc)
               /\ LET p == origin[acc].path
                  IN  (<<"c","o","m","m","a","n","d">> \in observed[p] /\ <<"n","a","m","e">> \notin observed[p]) =>
                          chosen[acc].app = humanise(Base(customMap[p].cmd))

\* C10 amended: as C10, but the application label is "Custom" when the
\* humanised basename of the command is empty.
C10_AppIsBasenameOrCustom ==
    Collected =>
        /\ \A p \in DOMAIN customMap :
               (<<"b","i","n","d","i","n","g">> \notin observed[p]) => \A acc \in customAccels : origin[acc].path # p
        /\ \A acc \in customAccels :
               /\ customAssembly(acc)
               /\ LET p == origin[acc].path
                      b == humanise(Base(customMap[p].cmd))
                  IN  (<<"c","o","m","m","a","n","d">> \in observed[p] /\ <<"n","a","m","e">> \notin observed[p]) =>
                          /\ chosen[acc].app = IF b = <<>> THEN <<"C","u","s","t","o","m">> ELSE b
                          /\ customMap[p].cmd = <<"/","u","s","r","/","b","i","n","/","g","n","o","m","e","-","t","e","r","m","i","n","a","l">> =>
                                 /\ chosen[acc].app = <<"G","n","o","m","e"," ","T","e","r","m","i","n","a","l">>
                                 /\ chosen[acc].action = <<"/","u","s","r","/","b","i","n","/","g","n","o","m","e","-","t","e","r","m","i","n","a","l">>

\* A path with a binding and a command but no name has its row in the result,
\* the command line having come before the binding line.
C10_Witness ==
    /\ pc = "collected"
    /\ \E acc \in customAccels :
           /\ observed[origin[acc].path] = {<<"b","i","n","d","i","n","g">>, <<"c","o","m","m","a","n","d">>}
           /\ customMap[origin[acc].path].cmd = <<"/","u","s","r","/","b","i","n","/","g","n","o","m","e","-","t","e","r","m","i","n","a","l">>
           /\ \E i, j \in DOMAIN dump :
                  /\ i < j
                  /\ parsed[dump[i]].key = <<"c","o","m","m","a","n","d">>
                  /\ parsed[dump[j]].key = <<"b","i","n","d","i","n","g">>
                  /\ customPath(parsed[dump[i]]) = origin[acc].path
                  /\ customPath(parsed[dump[j]]) = origin[acc].path

====
